---- MODULE Spec2Model ----
(***************************************************************************)
(* Mission Control v1.1: the client-side state / sync engine of the task   *)
(* dashboard (class MissionControl) together with the Express persistence  *)
(* endpoint POST /api/data.  One action per event handler, timer callback  *)
(* or network completion; every handler runs to completion (JavaScript is  *)
(* single threaded), so an action is the whole handler.                    *)
(***************************************************************************)
EXTENDS Integers, Sequences, FiniteSets, TLC

VARIABLES
  pc,            \* position of init(): "loading" | "running" | "crashed"
  uncaught,      \* TRUE once an exception has escaped a handler or init()
  listeners,     \* setupEventListeners() has run
  rendered,      \* render() has run at least once
  data,          \* this.data: NULL or the store
  filteredTasks, \* this.filteredTasks: references (positions in data.tasks)
  domTheme,      \* document.body.dataset.theme ("" when unset)
  sidebarTask,   \* task object captured by the detail editor's handlers
  saveTimeout,   \* this.saveTimeout: a timer handle, 0 when null
  timers,        \* pending setTimeout callbacks: handle -> [kind, left]
  autoLeft,      \* ms until the autosave interval fires, NONE when not started
  localStorage,  \* localStorage['missionControlData']: NULL or a JSON text
  remoteFile,    \* data.json on the server: NULL (unreadable) or a document
  posts,         \* POST /api/data exchanges in flight
  lastPost,      \* the most recently issued POST and what became of it
                 \* ("inflight" | "failed" | "ok" at the server | "synced" to the store),
                 \* issued by this page or an earlier one
  loaded,        \* branch loadData took: "" | "remote" | "cache" | "none"
  sinceSave,     \* ms since the last saveData call still awaiting its write, else NONE
  now,           \* the wall clock in ms (Date.now(), new Date())
  filterAssignee,       \* value of the #filterAssignee select
  filterProject,        \* value of the #filterProject select
  filterPriority,       \* value of the #filterPriority select
  searchInput,          \* value of the #searchInput field
  searchLeft,           \* ms until the pending search timeout fires, NONE when none
  defaultViewSelect,    \* value of the #defaultViewSelect select
  defaultCalViewSelect, \* value of the #defaultCalViewSelect select
  lastSearch,           \* the last run of search(): its query, the store, the result,
                        \* and whether the run before it had the same query and store
  lastConfirm,          \* the user's last answer to confirm(): "" | "ok" | "cancel"
  lastMiss,             \* the last operation called with an id that names no task, "" if none
  currentDate,          \* this.currentDate: the calendar's reference date
  currentCalendarView,  \* this.currentCalendarView: "month" | "week" | "day"
  newTaskModal,         \* #newTaskModal is shown
  settingsModal,        \* #settingsModal is shown
  shortcutsModal,       \* #shortcutsModal is shown
  stats                 \* the numbers shown in the stats bar, NULL before the first updateStats

(* What saveData and doSave write *)
saveVars == <<saveTimeout, timers, localStorage, posts, lastPost, sinceSave>>

vars == <<pc, uncaught, listeners, rendered, data, filteredTasks, domTheme,
          sidebarTask, saveTimeout, timers, autoLeft, localStorage,
          remoteFile, posts, lastPost, loaded, sinceSave, now,
          filterAssignee, filterProject, filterPriority, searchInput, searchLeft,
          defaultViewSelect, defaultCalViewSelect, lastSearch, lastConfirm, lastMiss,
          currentDate, currentCalendarView, newTaskModal, settingsModal, shortcutsModal,
          stats>>

(* The calendar's position and the modal dialogs *)
calVars == <<currentDate, currentCalendarView>>

modalVars == <<newTaskModal, settingsModal, shortcutsModal>>

(* The filter bar, the search field and the settings dialog *)
filterVars == <<filterAssignee, filterProject, filterPriority>>

domVars == <<filterAssignee, filterProject, filterPriority, searchInput, searchLeft,
             defaultViewSelect, defaultCalViewSelect, lastSearch, lastConfirm,
             calVars, modalVars>>

-----------------------------------------------------------------------------
(* Bounds of the model *)
MaxTasks == 2
MaxInFlight == 2
MaxRefs == 3
MinYear == 2023
MaxYear == 2025
TickHalvings == 1
WindowTicks == 6

(* Program constants *)
DEBOUNCE_MS == 1000
AUTOSAVE_MS == 30000
SEARCH_DEBOUNCE_MS == 300

(* The clock moves in ticks of DEBOUNCE_MS / 2^TickHalvings ms *)
TickMs == DEBOUNCE_MS \div (2 ^ TickHalvings)
SyncHorizonMs == WindowTicks * TickMs
StoreHorizonMs == DEBOUNCE_MS - TickMs
ViewHorizonMs == DEBOUNCE_MS

NULL == [null |-> TRUE]
NONE == 0 - 1

(* sidebarTask when the editor's task object is no longer in the store *)
DETACHED == 0 - 2

(* The calendar date on which the clock reads 0; a date is a year, a month  *)
(* (0 = January, as Date.getMonth) and a day of the month.                 *)
Today == [year |-> 2024, month |-> 0, day |-> 31]

(* A number and a string holding digits are different JavaScript values *)
Num(n) == [number |-> n]
Str(n) == [string |-> n]

(* Text that search() lower-cases is a sequence of characters *)
T_Fix == <<"F", "i", "x">>
T_Ship == <<"s", "h", "i", "p">>
P_Launch == <<"L", "a", "u", "n", "c", "h">>
P_General == <<"G", "e", "n", "e", "r", "a", "l">>
EmptyText == <<>>
T_All == <<"a", "l", "l">>
T_CopySuffix == <<" ", "(", "C", "o", "p", "y", ")">>

Statuses == {"backlog", "todo", "doing", "review", "done"}

-----------------------------------------------------------------------------
(* JSON.stringify / JSON.parse: a text wrapping the value it denotes.  The   *)
(* store holds only strings, numbers, null, arrays and plain objects.       *)
Stringify(v) == [json |-> v]
Parse(s) == s.json

(* Seed documents left by earlier sessions *)
SeedTask == [id |-> 0 - 1, title |-> T_Fix, project |-> P_Launch,
             status |-> "todo", priority |-> "p1", assignee |-> "Dana",
             deadline |-> "null", effort |-> "medium", progress |-> Num(0),
             nextAction |-> "", tags |-> <<>>, notes |-> EmptyText,
             createdAt |-> 0 - 1, updatedAt |-> 0 - 1]

SeedDoc == [meta |-> [lastSync |-> 0 - 1],
            settings |-> [theme |-> "dark", defaultView |-> "kanban",
                          defaultCalendarView |-> "month"],
            projects |-> <<P_Launch, P_General>>,
            assignees |-> <<"Dana">>,
            tasks |-> <<SeedTask>>]

CachedDoc == [SeedDoc EXCEPT !.settings.theme = "light", !.meta.lastSync = 0 - 2]

(* The parts of a document other than meta *)
Content(d) == [tasks |-> d.tasks, projects |-> d.projects,
               assignees |-> d.assignees, settings |-> d.settings]

AllRefs(d) == [i \in 1..Len(d.tasks) |-> i]

(* Array.prototype.find(t => t.id === taskId): position of the first match, 0 if none *)
FindTask(d, taskId) ==
  IF \E i \in 1..Len(d.tasks) : d.tasks[i].id = taskId
  THEN CHOOSE i \in 1..Len(d.tasks) :
         /\ d.tasks[i].id = taskId
         /\ \A j \in 1..(i - 1) : d.tasks[j].id # taskId
  ELSE 0

-----------------------------------------------------------------------------
(* Timers *)
(* A clearTimeout that cancels nothing *)
ClearTimeout_NoOp(ts, h) == ts

ClearTimeout(ts, h) == [k \in (DOMAIN ts) \ {h} |-> ts[k]]

NewHandle(ts, cur) ==
  CHOOSE h \in 1..(Cardinality(DOMAIN ts) + 2) :
    /\ h \notin DOMAIN ts
    /\ h # cur
    /\ \A g \in 1..(h - 1) : g \in DOMAIN ts \/ g = cur

SetTimeout(ts, h, kind, delay) ==
  [k \in (DOMAIN ts) \cup {h} |-> IF k = h THEN [kind |-> kind, left |-> delay] ELSE ts[k]]

NoTimers == [k \in {} |-> 0]

PendingSaves == {h \in DOMAIN timers : timers[h].kind = "doSave"}

-----------------------------------------------------------------------------
(* Persistence bridge *)

FreePostId == CHOOSE i \in 1..(MaxInFlight + 1) : \A p \in posts : p.id # i

(* doSave, up to its await: fetch(POST) with the store as it is now *)
DoSaveSend(d) ==
  LET p == [id |-> FreePostId, body |-> Stringify(d), stage |-> "sent",
            lastSync |-> NONE, orphan |-> FALSE]
  IN /\ posts' = posts \cup {p}
     /\ lastPost' = [id |-> p.id, body |-> p.body, outcome |-> "inflight", page |-> "this"]
     /\ sinceSave' = NONE

(* Variants of saveData with a slip, each used to test a property *)
SaveData_KeepsOldTimer(d, immediate) ==
  /\ localStorage' = Stringify(d)
  /\ IF immediate
     THEN /\ timers' = ClearTimeout(timers, saveTimeout)
          /\ saveTimeout' = saveTimeout
          /\ DoSaveSend(d)
     ELSE LET h == NewHandle(timers, saveTimeout)
          IN /\ timers' = SetTimeout(timers, h, "doSave", DEBOUNCE_MS)
             /\ saveTimeout' = h
             /\ sinceSave' = 0
             /\ UNCHANGED <<posts, lastPost>>

SaveData_ImmediateKeepsTimer(d, immediate) ==
  /\ localStorage' = Stringify(d)
  /\ IF immediate
     THEN /\ timers' = timers
          /\ saveTimeout' = saveTimeout
          /\ DoSaveSend(d)
     ELSE LET cleared == ClearTimeout(timers, saveTimeout)
              h == NewHandle(cleared, saveTimeout)
          IN /\ timers' = SetTimeout(cleared, h, "doSave", DEBOUNCE_MS)
             /\ saveTimeout' = h
             /\ sinceSave' = 0
             /\ UNCHANGED <<posts, lastPost>>

SaveData_IgnoresImmediate(d, immediate) ==
  /\ localStorage' = Stringify(d)
  /\ LET cleared == ClearTimeout(timers, saveTimeout)
         h == NewHandle(cleared, saveTimeout)
     IN /\ timers' = SetTimeout(cleared, h, "doSave", DEBOUNCE_MS)
        /\ saveTimeout' = h
        /\ sinceSave' = 0
        /\ UNCHANGED <<posts, lastPost>>

SaveData_NoCache(d, immediate) ==
  /\ localStorage' = localStorage
  /\ IF immediate
     THEN /\ timers' = ClearTimeout(timers, saveTimeout)
          /\ saveTimeout' = saveTimeout
          /\ DoSaveSend(d)
     ELSE LET cleared == ClearTimeout(timers, saveTimeout)
              h == NewHandle(cleared, saveTimeout)
          IN /\ timers' = SetTimeout(cleared, h, "doSave", DEBOUNCE_MS)
             /\ saveTimeout' = h
             /\ sinceSave' = 0
             /\ UNCHANGED <<posts, lastPost>>

(* saveData(immediate), called with the store d *)
SaveData(d, immediate) ==
  /\ localStorage' = Stringify(d)
  /\ IF immediate
     THEN /\ timers' = ClearTimeout(timers, saveTimeout)
          /\ saveTimeout' = saveTimeout
          /\ DoSaveSend(d)
     ELSE LET cleared == ClearTimeout(timers, saveTimeout)
              h == NewHandle(cleared, saveTimeout)
          IN /\ timers' = SetTimeout(cleared, h, "doSave", DEBOUNCE_MS)
             /\ saveTimeout' = h
             /\ sinceSave' = 0
             /\ UNCHANGED <<posts, lastPost>>

CanSend == Cardinality(posts) < MaxInFlight

(* updateStats(): the four numbers it writes into the stats bar *)
DayMs == 86400000
DayOf(ts) == ts \div DayMs

(* new Date(deadline) as a day count from Today, for the dates the forms offer *)
DeadlineDay(s) == IF s = "2024-01-30" THEN 0 - 1 ELSE 1

(* parseInt(progress) || 0 *)
ParseInt(v) == IF "number" \in DOMAIN v THEN v.number ELSE v.string

(* The positions of the tasks counted as active, overdue and done today *)
ActiveTasks(d) == {i \in 1..Len(d.tasks) : d.tasks[i].status # "done"}

OverdueTasks(d, ts) ==
  {i \in 1..Len(d.tasks) : /\ d.tasks[i].deadline # "null"
                           /\ d.tasks[i].status # "done"
                           /\ DeadlineDay(d.tasks[i].deadline) < DayOf(ts)}

DoneTodayTasks(d, ts) ==
  {i \in 1..Len(d.tasks) : /\ d.tasks[i].status = "done"
                           /\ DayOf(d.tasks[i].updatedAt) = DayOf(ts)}

RECURSIVE TotalProgress(_)
TotalProgress(tasks) ==
  IF tasks = <<>> THEN 0
  ELSE (IF Head(tasks).status = "done" THEN 100 ELSE ParseInt(Head(tasks).progress))
       + TotalProgress(Tail(tasks))

(* Math.round of a non-negative quotient a / b *)
RoundDiv(a, b) == (2 * a + b) \div (2 * b)

UpdateStats(d, ts) ==
  [active |-> Cardinality(ActiveTasks(d)),
   overdue |-> Cardinality(OverdueTasks(d, ts)),
   doneToday |-> Cardinality(DoneTodayTasks(d, ts)),
   progress |-> IF Len(d.tasks) = 0 THEN 0
                ELSE RoundDiv(TotalProgress(d.tasks), Len(d.tasks))]

-----------------------------------------------------------------------------
(* Startup: constructor, init(), loadData() *)

Init ==
  /\ pc = "loading"
  /\ uncaught = FALSE
  /\ listeners = FALSE
  /\ rendered = FALSE
  /\ data = NULL
  /\ filteredTasks = <<>>
  /\ domTheme = ""
  /\ sidebarTask = 0
  /\ saveTimeout = 0
  /\ timers = NoTimers
  /\ autoLeft = NONE
  /\ localStorage \in {NULL, Stringify(CachedDoc)}
  /\ remoteFile \in {NULL, SeedDoc}
  /\ posts = {}
  /\ lastPost = NULL
  /\ loaded = ""
  /\ sinceSave = NONE
  /\ now = 0
  /\ filterAssignee = "all"
  /\ filterProject = T_All
  /\ filterPriority = "all"
  /\ searchInput = EmptyText
  /\ searchLeft = NONE
  /\ defaultViewSelect = "kanban"
  /\ defaultCalViewSelect = "month"
  /\ lastSearch = NULL
  /\ lastConfirm = ""
  /\ lastMiss = ""
  /\ currentDate = Today
  /\ currentCalendarView = "month"
  /\ newTaskModal = FALSE
  /\ settingsModal = FALSE
  /\ shortcutsModal = FALSE
  /\ stats = NULL

(* init() after loadData() has settled with the store d:                   *)
(* setupEventListeners(); applySettings(); render(); startAutoSave().      *)
(* applySettings reads this.data.settings: a TypeError when d is null,     *)
(* which rejects init()'s promise; nothing after it runs.                  *)
InitRest(d) ==
  /\ listeners' = TRUE
  /\ IF d = NULL
     THEN /\ pc' = "crashed"
          /\ uncaught' = TRUE
          /\ domTheme' = domTheme
          /\ rendered' = rendered
          /\ autoLeft' = autoLeft
          /\ UNCHANGED <<filterAssignee, filterProject, currentCalendarView>>
     ELSE /\ pc' = "running"
          /\ uncaught' = uncaught
          /\ domTheme' = d.settings.theme
          /\ rendered' = TRUE
          /\ autoLeft' = AUTOSAVE_MS
          /\ filterAssignee' = "all"
          /\ filterProject' = T_All
          /\ currentCalendarView' = d.settings.defaultCalendarView

(* GET /api/data answered 200 with the document on disk *)
LoadOk ==
  /\ pc = "loading"
  /\ remoteFile # NULL
  /\ data' = remoteFile
  /\ filteredTasks' = AllRefs(remoteFile)
  /\ loaded' = "remote"
  /\ stats' = UpdateStats(remoteFile, now)
  /\ InitRest(remoteFile)
  /\ UNCHANGED <<sidebarTask, remoteFile, now, filterPriority, searchInput, searchLeft,
                 defaultViewSelect, defaultCalViewSelect, lastSearch, lastConfirm, lastMiss,
                 currentDate, modalVars>>
  /\ UNCHANGED saveVars

(* A load that never looks at the offline cache *)
Fallback_NoCache(backup) == NULL

(* loadData's catch block: the store adopted from the offline cache text *)
Fallback(backup) == IF backup # NULL THEN Parse(backup) ELSE NULL

(* GET /api/data failed: network error or a non-2xx answer.  A cache text  *)
(* that parses to null makes the catch block itself throw (null.tasks),    *)
(* before any listener is installed.                                       *)
LoadFail ==
  /\ pc = "loading"
  /\ LET d == Fallback(localStorage)
     IN /\ data' = d
        /\ filteredTasks' = IF d # NULL THEN AllRefs(d) ELSE filteredTasks
        /\ IF localStorage # NULL /\ d = NULL
           THEN /\ pc' = "crashed"
                /\ uncaught' = TRUE
                /\ UNCHANGED <<listeners, domTheme, rendered, autoLeft,
                                filterAssignee, filterProject, currentCalendarView>>
           ELSE InitRest(d)
  /\ loaded' = IF localStorage # NULL THEN "cache" ELSE "none"
  /\ UNCHANGED stats
  /\ UNCHANGED <<sidebarTask, remoteFile, now, filterPriority, searchInput, searchLeft,
                 defaultViewSelect, defaultCalViewSelect, lastSearch, lastConfirm, lastMiss,
                 currentDate, modalVars>>
  /\ UNCHANGED saveVars

(* The page is reloaded: a new MissionControl; the browser drops the old   *)
(* page's timers and response callbacks, requests already sent travel on.  *)
Reload ==
  /\ pc # "loading"
  /\ pc' = "loading"
  /\ uncaught' = FALSE
  /\ listeners' = FALSE
  /\ rendered' = FALSE
  /\ data' = NULL
  /\ filteredTasks' = <<>>
  /\ domTheme' = ""
  /\ sidebarTask' = 0
  /\ saveTimeout' = 0
  /\ timers' = NoTimers
  /\ autoLeft' = NONE
  /\ posts' = {[p EXCEPT !.orphan = TRUE] : p \in {q \in posts : q.stage = "sent"}}
  /\ loaded' = ""
  /\ sinceSave' = NONE
  /\ filterAssignee' = "all"
  /\ filterProject' = T_All
  /\ filterPriority' = "all"
  /\ searchInput' = EmptyText
  /\ searchLeft' = NONE
  /\ defaultViewSelect' = "kanban"
  /\ defaultCalViewSelect' = "month"
  /\ lastSearch' = NULL
  /\ lastConfirm' = ""
  /\ lastMiss' = ""
  /\ currentDate' = Today
  /\ currentCalendarView' = "month"
  /\ newTaskModal' = FALSE
  /\ settingsModal' = FALSE
  /\ shortcutsModal' = FALSE
  /\ stats' = NULL
  /\ lastPost' = IF lastPost # NULL THEN [lastPost EXCEPT !.page = "earlier"] ELSE lastPost
  /\ UNCHANGED <<localStorage, remoteFile, now>>

-----------------------------------------------------------------------------
(* Task store mutations (Interaction Controller) *)

Ready == pc = "running"

UISame == UNCHANGED <<pc, uncaught, listeners, rendered, domTheme, autoLeft,
                      remoteFile, loaded, now, domVars>>

UIKept == UNCHANGED <<pc, uncaught, listeners, rendered, domTheme, autoLeft,
                      remoteFile, loaded, now, filterVars, searchInput, searchLeft,
                      defaultViewSelect, defaultCalViewSelect, lastSearch>>

ModalsKept == UNCHANGED <<calVars, modalVars>>

SetTask(d, i, t) == [d EXCEPT !.tasks[i] = t]

(* updateTaskStatus's change to the task found *)
StatusUpdated(t, newStatus, ts) ==
  [t EXCEPT !.status = newStatus,
            !.progress = IF newStatus = "done" THEN Num(100) ELSE @,
            !.updatedAt = ts]

(* Drop of a card on a column: updateTaskStatus(taskId, newStatus) *)
UpdateTaskStatus(taskId, newStatus) ==
  /\ Ready
  /\ LET i == FindTask(data, taskId)
     IN IF i # 0
        THEN LET d == SetTask(data, i, StatusUpdated(data.tasks[i], newStatus, now))
             IN /\ data' = d
                /\ SaveData(d, FALSE)
                /\ stats' = UpdateStats(d, now)
                /\ UNCHANGED lastMiss
        ELSE /\ lastMiss' = "updateTaskStatus"
             /\ UNCHANGED <<stats, data, saveTimeout, timers, localStorage, posts, lastPost, sinceSave>>
  /\ UNCHANGED <<filteredTasks, sidebarTask>>
  /\ UISame

(* quickComplete's change to the task found *)
Completed(t, ts) == [t EXCEPT !.status = "done", !.progress = Num(100), !.updatedAt = ts]

QuickComplete(taskId) ==
  /\ Ready
  /\ LET i == FindTask(data, taskId)
     IN IF i # 0
        THEN LET d == SetTask(data, i, Completed(data.tasks[i], now))
             IN /\ data' = d
                /\ SaveData(d, FALSE)
                /\ stats' = UpdateStats(d, now)
                /\ UNCHANGED lastMiss
        ELSE /\ lastMiss' = "quickComplete"
             /\ UNCHANGED <<stats, data, saveTimeout, timers, localStorage, posts, lastPost, sinceSave>>
  /\ UNCHANGED <<filteredTasks, sidebarTask>>
  /\ UISame

(* openTaskDetail(taskId): the change handlers close over the task found *)
OpenTaskDetail(taskId) ==
  /\ Ready
  /\ FindTask(data, taskId) # 0
  /\ sidebarTask' = FindTask(data, taskId)
  /\ UNCHANGED <<data, filteredTasks, lastMiss, stats>>
  /\ UNCHANGED saveVars
  /\ UISame

(* The detail editor's change handler: task[field] = e.target.value *)
FieldEdited(t, field, value, ts) == [[t EXCEPT ![field] = value] EXCEPT !.updatedAt = ts]

(* A task removed by quickDelete while the editor shows it is no longer in *)
(* the store: the handler then writes to the removed object only.          *)
EditField(field, value) ==
  /\ Ready
  /\ sidebarTask # 0
  /\ LET d == IF sidebarTask = DETACHED THEN data
              ELSE SetTask(data, sidebarTask,
                           FieldEdited(data.tasks[sidebarTask], field, value, now))
     IN /\ data' = d
        /\ SaveData(d, FALSE)
        /\ stats' = UpdateStats(d, now)
  /\ UNCHANGED <<filteredTasks, sidebarTask, lastMiss>>
  /\ UISame

(* String.prototype.toLowerCase, over the letters A-Z *)
UpperCase == <<"A", "B", "C", "D", "E", "F", "G", "H", "I", "J", "K", "L", "M",
               "N", "O", "P", "Q", "R", "S", "T", "U", "V", "W", "X", "Y", "Z">>
LowerCase == <<"a", "b", "c", "d", "e", "f", "g", "h", "i", "j", "k", "l", "m",
               "n", "o", "p", "q", "r", "s", "t", "u", "v", "w", "x", "y", "z">>

LowerChar(c) ==
  IF \E k \in DOMAIN UpperCase : UpperCase[k] = c
  THEN LowerCase[CHOOSE k \in DOMAIN UpperCase : UpperCase[k] = c]
  ELSE c

ToLowerCase(t) == [k \in 1..Len(t) |-> LowerChar(t[k])]

(* String.prototype.includes *)
Includes(t, q) ==
  \E k \in 0..(Len(t) - Len(q)) : \A j \in 1..Len(q) : t[k + j] = q[j]

(* A filter callback that keeps a task when any one filter accepts it *)
PassesFilters_AnyFilter(task, a, p, pr) ==
  \/ (a = "all" \/ task.assignee = a)
  \/ (p = T_All \/ task.project = p)
  \/ (pr = "all" \/ task.priority = pr)

(* applyFilters' callback: false on the first filter that is set and differs *)
PassesFilters(task, a, p, pr) ==
  /\ (a = "all" \/ task.assignee = a)
  /\ (p = T_All \/ task.project = p)
  /\ (pr = "all" \/ task.priority = pr)

(* this.data.tasks.filter(...) under the filter values a, p, pr *)
Filtered(d, a, p, pr) ==
  SelectSeq(AllRefs(d), LAMBDA i : PassesFilters(d.tasks[i], a, p, pr))

(* applyFilters(): the filter values are read from the three selects *)
ApplyFilters(d) == Filtered(d, filterAssignee, filterProject, filterPriority)

(* search's callback, the query already lower-cased *)
Found(task, q) ==
  \/ Includes(ToLowerCase(task.title), q)
  \/ Includes(ToLowerCase(task.notes), q)
  \/ Includes(ToLowerCase(task.project), q)

(* A search whose empty query shows every task, whatever the filters *)
SearchResult_EmptyShowsAll(d, query) ==
  IF query = EmptyText THEN AllRefs(d)
  ELSE SelectSeq(AllRefs(d), LAMBDA i : Found(d.tasks[i], ToLowerCase(query)))

(* search(query): the visible set it assigns *)
SearchResult(d, query) ==
  IF query = EmptyText THEN ApplyFilters(d)
  ELSE SelectSeq(AllRefs(d), LAMBDA i : Found(d.tasks[i], ToLowerCase(query)))

(* change on a filter select: applyFilters() *)
FilterChanged(a, p, pr) ==
  /\ listeners
  /\ <<a, p, pr>> # <<filterAssignee, filterProject, filterPriority>>
  /\ filterAssignee' = a
  /\ filterProject' = p
  /\ filterPriority' = pr
  /\ IF data = NULL
     THEN /\ uncaught' = TRUE
          /\ UNCHANGED filteredTasks
     ELSE /\ uncaught' = uncaught
          /\ filteredTasks' = Filtered(data, a, p, pr)
  /\ UNCHANGED <<pc, listeners, rendered, data, domTheme, sidebarTask, autoLeft,
                 remoteFile, loaded, now, searchInput, searchLeft,
                 defaultViewSelect, defaultCalViewSelect, lastSearch, lastConfirm, lastMiss, stats,
                 calVars, modalVars>>
  /\ UNCHANGED saveVars

ChangeFilterAssignee(v) == FilterChanged(v, filterProject, filterPriority)
ChangeFilterProject(v) == FilterChanged(filterAssignee, v, filterPriority)
ChangeFilterPriority(v) == FilterChanged(filterAssignee, filterProject, v)

(* input on the search field: the pending search is replaced by one 300 ms out *)
SearchInput(q) ==
  /\ listeners
  /\ q # searchInput
  /\ searchInput' = q
  /\ searchLeft' = SEARCH_DEBOUNCE_MS
  /\ UNCHANGED <<pc, uncaught, listeners, rendered, data, filteredTasks, domTheme,
                 sidebarTask, autoLeft, remoteFile, loaded, now, filterVars,
                 defaultViewSelect, defaultCalViewSelect, lastSearch, lastConfirm, lastMiss, stats,
                 calVars, modalVars>>
  /\ UNCHANGED saveVars

(* The search timeout fires: this.search(e.target.value) *)
SearchTimer ==
  /\ listeners
  /\ searchLeft = 0
  /\ searchLeft' = NONE
  /\ IF data = NULL
     THEN /\ uncaught' = TRUE
          /\ UNCHANGED <<filteredTasks, lastSearch>>
     ELSE /\ uncaught' = uncaught
          /\ filteredTasks' = SearchResult(data, searchInput)
          /\ lastSearch' = [query |-> searchInput, store |-> data,
                            result |-> SearchResult(data, searchInput),
                            again |-> /\ lastSearch # NULL
                                      /\ lastSearch.query = searchInput
                                      /\ lastSearch.store = data]
  /\ UNCHANGED <<pc, listeners, rendered, data, domTheme, sidebarTask, autoLeft,
                 remoteFile, loaded, now, filterVars, searchInput,
                 defaultViewSelect, defaultCalViewSelect, lastConfirm, lastMiss, stats,
                 calVars, modalVars>>
  /\ UNCHANGED saveVars

(* The task object createTask builds from the form *)
NewTask(form, ts) ==
  [id |-> ts, title |-> form.title, project |-> form.project,
   status |-> form.status, priority |-> form.priority, assignee |-> form.assignee,
   deadline |-> form.deadline, effort |-> form.effort, progress |-> Num(0),
   nextAction |-> "", tags |-> <<>>, notes |-> form.notes,
   createdAt |-> ts, updatedAt |-> ts]

(* Submit of the new-task form: createTask(e) *)
CreateTask(form) ==
  /\ Ready
  /\ Len(data.tasks) < MaxTasks
  /\ LET d == [data EXCEPT !.tasks = Append(@, NewTask(form, now))]
     IN /\ data' = d
        /\ SaveData(d, FALSE)
        /\ filteredTasks' = ApplyFilters(d)
        /\ stats' = UpdateStats(d, now)
  /\ newTaskModal' = FALSE
  /\ UNCHANGED <<sidebarTask, lastMiss, settingsModal, shortcutsModal>>
  /\ UIKept
  /\ UNCHANGED <<lastConfirm, calVars>>

(* Cmd/Ctrl+K: openQuickAdd(); the prompt answered with title ("" = cancelled) *)
QuickTask(title, d, ts) ==
  [id |-> ts, title |-> title,
   project |-> IF Len(d.projects) > 0 THEN d.projects[1] ELSE P_General,
   status |-> "todo", priority |-> "p1",
   assignee |-> IF Len(d.assignees) > 0 THEN d.assignees[1] ELSE "Unassigned",
   deadline |-> "null", effort |-> "medium", progress |-> Num(0),
   nextAction |-> "", tags |-> <<>>, notes |-> EmptyText,
   createdAt |-> ts, updatedAt |-> ts]

OpenQuickAdd(title) ==
  /\ Ready
  /\ title # EmptyText
  /\ Len(data.tasks) < MaxTasks
  /\ LET d == [data EXCEPT !.tasks = Append(@, QuickTask(title, data, now))]
     IN /\ data' = d
        /\ SaveData(d, FALSE)
        /\ filteredTasks' = ApplyFilters(d)
        /\ stats' = UpdateStats(d, now)
  /\ UNCHANGED <<sidebarTask, lastMiss>>
  /\ UISame

(* Removal by splice(findIndex(...), 1): an index of -1 removes the last task *)
Removed_SpliceAtIndex(tasks, taskId) ==
  IF \E i \in 1..Len(tasks) : tasks[i].id = taskId
  THEN SelectSeq(tasks, LAMBDA t : t.id # taskId)
  ELSE SubSeq(tasks, 1, Len(tasks) - 1)

(* this.data.tasks.filter(t => t.id !== taskId) *)
Removed(tasks, taskId) == SelectSeq(tasks, LAMBDA t : t.id # taskId)

(* Where the object at position i of d.tasks is after that removal *)
AfterRemoval(d, taskId, i) ==
  IF i = 0 \/ i = DETACHED THEN i
  ELSE IF d.tasks[i].id = taskId THEN DETACHED
  ELSE Cardinality({j \in 1..i : d.tasks[j].id # taskId})


(* A delete that does not wait for the answer to confirm() *)
QuickDelete_IgnoresConfirm(taskId, confirmed) ==
  /\ Ready
  /\ lastConfirm' = IF confirmed THEN "ok" ELSE "cancel"
  /\ LET d == [data EXCEPT !.tasks = Removed(@, taskId)]
     IN /\ data' = d
        /\ SaveData(d, FALSE)
        /\ filteredTasks' = ApplyFilters(d)
        /\ sidebarTask' = AfterRemoval(data, taskId, sidebarTask)
        /\ lastMiss' = IF FindTask(data, taskId) = 0 THEN "quickDelete" ELSE lastMiss
        /\ stats' = UpdateStats(d, now)
  /\ UIKept
  /\ ModalsKept

(* quickDelete(taskId), the confirm dialog answered with confirmed *)
QuickDelete(taskId, confirmed) ==
  /\ Ready
  /\ lastConfirm' = IF confirmed THEN "ok" ELSE "cancel"
  /\ IF confirmed
     THEN LET d == [data EXCEPT !.tasks = Removed(@, taskId)]
          IN /\ data' = d
             /\ SaveData(d, FALSE)
             /\ filteredTasks' = ApplyFilters(d)
             /\ sidebarTask' = AfterRemoval(data, taskId, sidebarTask)
             /\ lastMiss' = IF FindTask(data, taskId) = 0 THEN "quickDelete" ELSE lastMiss
             /\ stats' = UpdateStats(d, now)
     ELSE /\ UNCHANGED <<data, filteredTasks, sidebarTask, lastMiss, stats>>
          /\ UNCHANGED saveVars
  /\ UIKept
  /\ ModalsKept

(* A deleteTask that does not recompute the visible set *)
DeleteTask_KeepsView(taskId, confirmed) ==
  /\ Ready
  /\ lastConfirm' = IF confirmed THEN "ok" ELSE "cancel"
  /\ IF confirmed
     THEN LET d == [data EXCEPT !.tasks = Removed(@, taskId)]
          IN /\ data' = d
             /\ SaveData(d, FALSE)
             /\ filteredTasks' = filteredTasks
             /\ sidebarTask' = 0
             /\ lastMiss' = IF FindTask(data, taskId) = 0 THEN "deleteTask" ELSE lastMiss
             /\ stats' = UpdateStats(d, now)
     ELSE /\ UNCHANGED <<data, filteredTasks, sidebarTask, lastMiss, stats>>
          /\ UNCHANGED saveVars
  /\ UIKept
  /\ ModalsKept

(* deleteTask(taskId), the confirm dialog answered with confirmed; the     *)
(* sidebar is closed, so its fields take no further input.                 *)
DeleteTask(taskId, confirmed) ==
  /\ Ready
  /\ lastConfirm' = IF confirmed THEN "ok" ELSE "cancel"
  /\ IF confirmed
     THEN LET d == [data EXCEPT !.tasks = Removed(@, taskId)]
          IN /\ data' = d
             /\ SaveData(d, FALSE)
             /\ filteredTasks' = ApplyFilters(d)
             /\ sidebarTask' = 0
             /\ lastMiss' = IF FindTask(data, taskId) = 0 THEN "deleteTask" ELSE lastMiss
             /\ stats' = UpdateStats(d, now)
     ELSE /\ UNCHANGED <<data, filteredTasks, sidebarTask, lastMiss, stats>>
          /\ UNCHANGED saveVars
  /\ UIKept
  /\ ModalsKept

(* The copy duplicateTask makes: { ...task, id, title } *)
Duplicate(t, ts) == [t EXCEPT !.id = ts, !.title = @ \o T_CopySuffix]

(* duplicateTask(taskId) *)
DuplicateTask(taskId) ==
  /\ Ready
  /\ LET i == FindTask(data, taskId)
     IN IF i # 0
        THEN /\ Len(data.tasks) < MaxTasks
             /\ LET d == [data EXCEPT !.tasks = Append(@, Duplicate(data.tasks[i], now))]
                IN /\ data' = d
                   /\ SaveData(d, FALSE)
                   /\ filteredTasks' = ApplyFilters(d)
                   /\ sidebarTask' = 0
                   /\ UNCHANGED lastMiss
        ELSE /\ lastMiss' = "duplicateTask"
             /\ UNCHANGED <<data, filteredTasks, sidebarTask>>
             /\ UNCHANGED saveVars
  /\ UNCHANGED stats
  /\ UISame

(* toggleTheme(); with no store the assignment to this.data.settings throws *)
(* after the DOM attribute has been switched.                               *)
OtherTheme(current) == IF current = "dark" THEN "light" ELSE "dark"

(* toggleTheme saving before it has changed the store *)
ToggleTheme_SavesFirst ==
  /\ listeners
  /\ data # NULL
  /\ LET newTheme == OtherTheme(IF domTheme = "" THEN "dark" ELSE domTheme)
     IN /\ domTheme' = newTheme
        /\ data' = [data EXCEPT !.settings.theme = newTheme]
        /\ SaveData(data, FALSE)
        /\ uncaught' = uncaught
  /\ UNCHANGED <<pc, listeners, rendered, filteredTasks, sidebarTask,
                 autoLeft, remoteFile, loaded, now, domVars, lastMiss, stats>>

ToggleTheme ==
  /\ listeners
  /\ LET newTheme == OtherTheme(IF domTheme = "" THEN "dark" ELSE domTheme)
     IN /\ domTheme' = newTheme
        /\ IF data = NULL
           THEN /\ uncaught' = TRUE
                /\ UNCHANGED <<data, saveTimeout, timers, localStorage, posts, lastPost, sinceSave>>
           ELSE LET d == [data EXCEPT !.settings.theme = newTheme]
                IN /\ data' = d
                   /\ SaveData(d, FALSE)
                   /\ uncaught' = uncaught
  /\ UNCHANGED <<pc, listeners, rendered, filteredTasks, sidebarTask,
                 autoLeft, remoteFile, loaded, now, domVars, lastMiss, stats>>

-----------------------------------------------------------------------------
(* Calendar navigation *)

IsLeapYear(y) == (y % 4 = 0 /\ y % 100 # 0) \/ y % 400 = 0

(* month is 0..11 *)
DaysInMonth(y, m) ==
  IF m = 1 THEN (IF IsLeapYear(y) THEN 29 ELSE 28)
  ELSE IF m \in {3, 5, 8, 10} THEN 30 ELSE 31

(* The date a Date object holds once its fields are set to year y, month m *)
(* and day d: a month outside 0..11 carries into the year, then a day      *)
(* outside the month carries into the neighbouring months.                 *)
RECURSIVE CarryDay(_, _, _)
CarryDay(y, m, d) ==
  IF d > DaysInMonth(y, m)
  THEN CarryDay(IF m = 11 THEN y + 1 ELSE y, (m + 1) % 12, d - DaysInMonth(y, m))
  ELSE IF d < 1
  THEN LET py == IF m = 0 THEN y - 1 ELSE y
           pm == (m + 11) % 12
       IN CarryDay(py, pm, d + DaysInMonth(py, pm))
  ELSE [year |-> y, month |-> m, day |-> d]

MakeDate(y, m, d) == CarryDay(y + (m \div 12), m % 12, d)

(* Date.prototype.setMonth(m) and setDate(d) *)
SetMonth(date, m) == MakeDate(date.year, m, date.day)
SetDate(date, d) == MakeDate(date.year, date.month, d)

(* navigateCalendar's new reference date *)
Navigated(date, view, direction) ==
  IF view = "month" THEN SetMonth(date, date.month + direction)
  ELSE IF view = "week" THEN SetDate(date, date.day + direction * 7)
  ELSE SetDate(date, date.day + direction)

CalendarKept ==
  UNCHANGED <<pc, uncaught, listeners, rendered, data, filteredTasks, domTheme,
              sidebarTask, autoLeft, remoteFile, loaded, now, filterVars, searchInput,
              searchLeft, defaultViewSelect, defaultCalViewSelect, lastSearch,
              lastConfirm, lastMiss, modalVars, stats, saveVars>>

(* click on #calPrev (-1) or #calNext (+1) *)
NavigateCalendar(direction) ==
  /\ Ready
  /\ Navigated(currentDate, currentCalendarView, direction).year \in MinYear..MaxYear
  /\ currentDate' = Navigated(currentDate, currentCalendarView, direction)
  /\ UNCHANGED currentCalendarView
  /\ CalendarKept

(* click on a .cal-view-btn *)
SwitchCalendarView(view) ==
  /\ Ready
  /\ view # currentCalendarView
  /\ currentCalendarView' = view
  /\ UNCHANGED currentDate
  /\ CalendarKept

(* click on #calToday: this.currentDate = new Date() *)
GoToToday ==
  /\ Ready
  /\ currentDate' = Today
  /\ UNCHANGED currentCalendarView
  /\ CalendarKept

-----------------------------------------------------------------------------
(* Overlays and keyboard shortcuts *)

OverlayKept ==
  UNCHANGED <<pc, uncaught, listeners, rendered, data, filteredTasks, domTheme,
              autoLeft, remoteFile, loaded, now, filterVars, searchInput,
              searchLeft, defaultViewSelect, defaultCalViewSelect, lastSearch,
              lastConfirm, lastMiss, calVars, stats, saveVars>>

(* openNewTaskModal() *)
OpenNewTaskModal ==
  /\ Ready
  /\ newTaskModal' = TRUE
  /\ UNCHANGED <<settingsModal, shortcutsModal, sidebarTask>>
  /\ OverlayKept

(* showShortcuts() *)
ShowShortcuts ==
  /\ Ready
  /\ shortcutsModal' = TRUE
  /\ UNCHANGED <<newTaskModal, settingsModal, sidebarTask>>
  /\ OverlayKept

(* closeModal(modalId): a close button or a click on the backdrop *)
CloseModal(modalId) ==
  /\ Ready
  /\ newTaskModal' = (newTaskModal /\ modalId # "newTaskModal")
  /\ settingsModal' = (settingsModal /\ modalId # "settingsModal")
  /\ shortcutsModal' = (shortcutsModal /\ modalId # "shortcutsModal")
  /\ UNCHANGED sidebarTask
  /\ OverlayKept

(* closeSidebar() from #closeSidebar *)
CloseSidebar ==
  /\ Ready
  /\ sidebarTask' = 0
  /\ UNCHANGED modalVars
  /\ OverlayKept

(* handleKeyboard(e): key pressed with the focus in an element of tag tagName *)
HandleKeyboard(key, tagName) ==
  /\ Ready
  /\ IF tagName \in {"INPUT", "TEXTAREA"}
     THEN UNCHANGED <<modalVars, sidebarTask>>
     ELSE IF key \in {"n", "N"}
     THEN /\ newTaskModal' = TRUE
          /\ UNCHANGED <<settingsModal, shortcutsModal, sidebarTask>>
     ELSE IF key = "Escape"
     THEN /\ newTaskModal' = FALSE
          /\ settingsModal' = FALSE
          /\ sidebarTask' = 0
          /\ UNCHANGED shortcutsModal
     ELSE IF key = "?"
     THEN /\ shortcutsModal' = TRUE
          /\ UNCHANGED <<newTaskModal, settingsModal, sidebarTask>>
     ELSE UNCHANGED <<modalVars, sidebarTask>>
  /\ OverlayKept

-----------------------------------------------------------------------------
(* Settings dialog *)

SettingsKept == UNCHANGED <<pc, uncaught, listeners, rendered, filteredTasks, domTheme,
                            sidebarTask, autoLeft, remoteFile, loaded, now, filterVars,
                            searchInput, searchLeft, lastSearch, lastConfirm, lastMiss, stats,
                            calVars, newTaskModal, shortcutsModal>>

(* openSettingsModal(): the two selects are set from the store *)
OpenSettingsModal ==
  /\ Ready
  /\ defaultViewSelect' = data.settings.defaultView
  /\ defaultCalViewSelect' = data.settings.defaultCalendarView
  /\ settingsModal' = TRUE
  /\ UNCHANGED data
  /\ UNCHANGED saveVars
  /\ SettingsKept

(* A settings handler: the store becomes d, saveData(), openSettingsModal() *)
SettingsSaved(d) ==
  /\ data' = d
  /\ SaveData(d, FALSE)
  /\ defaultViewSelect' = d.settings.defaultView
  /\ defaultCalViewSelect' = d.settings.defaultCalendarView
  /\ settingsModal' = TRUE
  /\ SettingsKept

(* click on #addProject with name typed in #newProject *)
AddProject(name) ==
  /\ Ready
  /\ name # EmptyText
  /\ Len(data.projects) < MaxRefs
  /\ SettingsSaved([data EXCEPT !.projects = Append(@, name)])

(* click on #addAssignee with name typed in #newAssignee *)
AddAssignee(name) ==
  /\ Ready
  /\ name # ""
  /\ Len(data.assignees) < MaxRefs
  /\ SettingsSaved([data EXCEPT !.assignees = Append(@, name)])

(* A removal that leaves the saving to the next autosave *)
RemoveProject_NoSave(name) ==
  /\ Ready
  /\ data' = [data EXCEPT !.projects = SelectSeq(@, LAMBDA x : x # name)]
  /\ defaultViewSelect' = data.settings.defaultView
  /\ defaultCalViewSelect' = data.settings.defaultCalendarView
  /\ settingsModal' = TRUE
  /\ UNCHANGED saveVars
  /\ SettingsKept

(* removeProject(name) *)
RemoveProject(name) ==
  /\ Ready
  /\ SettingsSaved([data EXCEPT !.projects = SelectSeq(@, LAMBDA x : x # name)])

(* removeAssignee(name) *)
RemoveAssignee(name) ==
  /\ Ready
  /\ SettingsSaved([data EXCEPT !.assignees = SelectSeq(@, LAMBDA x : x # name)])

(* The user picks v in #defaultViewSelect: no listener is attached to it *)
ChangeDefaultView(v) ==
  /\ Ready
  /\ v # defaultViewSelect
  /\ defaultViewSelect' = v
  /\ UNCHANGED <<data, defaultCalViewSelect, settingsModal>>
  /\ UNCHANGED saveVars
  /\ SettingsKept

(* The user picks v in #defaultCalViewSelect: no listener is attached to it *)
ChangeDefaultCalView(v) ==
  /\ Ready
  /\ v # defaultCalViewSelect
  /\ defaultCalViewSelect' = v
  /\ UNCHANGED <<data, defaultViewSelect, settingsModal>>
  /\ UNCHANGED saveVars
  /\ SettingsKept

-----------------------------------------------------------------------------
(* Timers and the passage of time *)

(* Time passes by one tick, up to the horizon of the window modelled; a    *)
(* callback that is due runs before time moves on.                         *)
Tick(horizon) ==
  /\ Ready
  /\ now + TickMs <= horizon
  /\ autoLeft > 0
  /\ \A h \in DOMAIN timers : timers[h].left > 0
  /\ searchLeft # 0
  /\ now' = now + TickMs
  /\ searchLeft' = IF searchLeft > TickMs THEN searchLeft - TickMs
                   ELSE IF searchLeft = NONE THEN NONE ELSE 0
  /\ UNCHANGED <<filterVars, searchInput, defaultViewSelect, defaultCalViewSelect,
                 lastSearch, lastConfirm, lastMiss, stats, calVars, modalVars>>
  /\ autoLeft' = IF autoLeft > TickMs THEN autoLeft - TickMs ELSE 0
  /\ timers' = [h \in DOMAIN timers |->
                  [timers[h] EXCEPT !.left = IF @ > TickMs THEN @ - TickMs ELSE 0]]
  /\ sinceSave' = IF sinceSave = NONE THEN NONE ELSE sinceSave + TickMs
  /\ UNCHANGED <<pc, uncaught, listeners, rendered, data, filteredTasks, domTheme,
                 sidebarTask, saveTimeout, localStorage, remoteFile,
                 posts, lastPost, loaded>>

(* The debounce timer h fires: doSave() *)
DoSaveTimer(h) ==
  /\ Ready
  /\ h \in PendingSaves
  /\ timers[h].left = 0
  /\ CanSend
  /\ timers' = ClearTimeout(timers, h)
  /\ DoSaveSend(data)
  /\ UNCHANGED <<pc, uncaught, listeners, rendered, data, filteredTasks, domTheme,
                 sidebarTask, saveTimeout, autoLeft, localStorage, remoteFile,
                 loaded, now, domVars, lastMiss, stats>>

(* The setInterval callback of startAutoSave: if (this.data) this.saveData(true) *)
AutoSave ==
  /\ Ready
  /\ autoLeft = 0
  /\ CanSend
  /\ autoLeft' = AUTOSAVE_MS
  /\ IF data # NULL
     THEN SaveData(data, TRUE)
     ELSE UNCHANGED saveVars
  /\ UNCHANGED <<pc, uncaught, listeners, rendered, data, filteredTasks, domTheme,
                 sidebarTask, remoteFile, loaded, now, domVars, lastMiss, stats>>

-----------------------------------------------------------------------------
(* Server: app.post('/api/data') and the network *)

Replace(p, q) == (posts \ {p}) \cup {q}

(* The document the handler writes: the body with meta.lastSync stamped *)
Stamped(body, ts) == [Parse(body) EXCEPT !.meta.lastSync = ts]

(* The server handles request p and the write succeeds *)
ServerSave(p) ==
  /\ p \in posts
  /\ p.stage = "sent"
  /\ remoteFile' = Stamped(p.body, now)
  /\ posts' = IF p.orphan THEN posts \ {p}
              ELSE Replace(p, [p EXCEPT !.stage = "ok", !.lastSync = now])
  /\ lastPost' = IF lastPost # NULL /\ lastPost.id = p.id /\ lastPost.outcome = "inflight"
                 THEN [lastPost EXCEPT !.outcome = "ok"] ELSE lastPost
  /\ UNCHANGED <<pc, uncaught, listeners, rendered, data, filteredTasks, domTheme,
                 sidebarTask, saveTimeout, timers, autoLeft, localStorage,
                 loaded, sinceSave, now, domVars, lastMiss, stats>>

(* Request p fails: network error, or the handler answers 500 *)
ServerFail(p) ==
  /\ p \in posts
  /\ p.stage = "sent"
  /\ posts' = IF p.orphan THEN posts \ {p} ELSE Replace(p, [p EXCEPT !.stage = "failed"])
  /\ lastPost' = IF lastPost # NULL /\ lastPost.id = p.id /\ lastPost.outcome = "inflight"
                 THEN [lastPost EXCEPT !.outcome = "failed"] ELSE lastPost
  /\ UNCHANGED <<pc, uncaught, listeners, rendered, data, filteredTasks, domTheme,
                 sidebarTask, saveTimeout, timers, autoLeft, localStorage,
                 remoteFile, loaded, sinceSave, now, domVars, lastMiss, stats>>

(* lastSync taken from the client's clock instead of the response *)
Synced_ClientClock(d, p) == [d EXCEPT !.meta.lastSync = now]

(* doSave after its awaits, response ok: this.data.meta.lastSync = result.lastSync *)
Synced(d, p) == [d EXCEPT !.meta.lastSync = p.lastSync]

SaveOk(p) ==
  /\ p \in posts
  /\ p.stage = "ok"
  /\ data' = Synced(data, p)
  /\ posts' = posts \ {p}
  /\ lastPost' = IF lastPost # NULL /\ lastPost.id = p.id /\ lastPost.outcome = "ok"
                 THEN [lastPost EXCEPT !.outcome = "synced"] ELSE lastPost
  /\ UNCHANGED <<pc, uncaught, listeners, rendered, filteredTasks, domTheme,
                 sidebarTask, saveTimeout, timers, autoLeft, localStorage,
                 remoteFile, loaded, sinceSave, now, domVars, lastMiss, stats>>

(* doSave's catch block *)
SaveFailed(p) ==
  /\ p \in posts
  /\ p.stage = "failed"
  /\ posts' = posts \ {p}
  /\ UNCHANGED <<pc, uncaught, listeners, rendered, data, filteredTasks, domTheme,
                 sidebarTask, saveTimeout, timers, autoLeft, localStorage,
                 remoteFile, lastPost, loaded, sinceSave, now, domVars, lastMiss, stats>>

-----------------------------------------------------------------------------
(* Inputs the environment offers *)

MissingId == 0 - 9

TaskIds == IF data = NULL THEN {} ELSE {data.tasks[i].id : i \in 1..Len(data.tasks)}

DropStatuses == {"doing", "done"}

EditInputs == {<<"status", "done">>, <<"status", "review">>,
               <<"progress", Str(50)>>, <<"progress", Str(100)>>}

(* An edit that moves a task in or out of a filter *)
ViewEdits == {<<"project", P_General>>}

Range(seq) == {seq[i] : i \in 1..Len(seq)}

Forms == {[title |-> T_Ship, project |-> P_Launch, status |-> st, priority |-> "p2",
           assignee |-> "Dana", deadline |-> "null", effort |-> "small",
           notes |-> EmptyText] : st \in {"todo", "done"}}

ViewForms == {[title |-> T_Ship, project |-> P_General, status |-> "todo", priority |-> "p2",
               assignee |-> "Dana", deadline |-> "null", effort |-> "small",
               notes |-> EmptyText]}

(* Options of the filter selects: "all" and the reference lists *)
AssigneeOptions == {"all"} \cup (IF data = NULL THEN {} ELSE Range(data.assignees))
ProjectOptions == {T_All} \cup (IF data = NULL THEN {} ELSE Range(data.projects))
PriorityOptions == {"all", "p1", "p2"}

(* What is typed in the search field *)
Queries == {EmptyText, <<"F", "i">>, <<"l", "a", "u">>}

(* What is typed in the quick-add prompt *)
Titles == {T_Ship}

Answers == {TRUE, FALSE}

(* A session that has been idle since it loaded SeedDoc, its first autosave *)
(* tick at most three ticks away.                                          *)
InitIdle ==
  /\ pc = "running"
  /\ uncaught = FALSE
  /\ listeners = TRUE
  /\ rendered = TRUE
  /\ data = SeedDoc
  /\ filteredTasks = AllRefs(SeedDoc)
  /\ domTheme = SeedDoc.settings.theme
  /\ sidebarTask = 0
  /\ saveTimeout = 0
  /\ timers = NoTimers
  /\ autoLeft \in {k * TickMs : k \in 1..3}
  /\ localStorage \in {NULL, Stringify(CachedDoc)}
  /\ remoteFile = SeedDoc
  /\ posts = {}
  /\ lastPost = NULL
  /\ loaded = "remote"
  /\ sinceSave = NONE
  /\ now = 0
  /\ filterAssignee = "all"
  /\ filterProject = T_All
  /\ filterPriority = "all"
  /\ searchInput = EmptyText
  /\ searchLeft = NONE
  /\ defaultViewSelect = "kanban"
  /\ defaultCalViewSelect = "month"
  /\ lastSearch = NULL
  /\ lastConfirm = ""
  /\ lastMiss = ""
  /\ currentDate = Today
  /\ currentCalendarView = "month"
  /\ newTaskModal = FALSE
  /\ settingsModal = FALSE
  /\ shortcutsModal = FALSE
  /\ stats = UpdateStats(data, now)

NetStep ==
  \/ \E p \in posts : ServerSave(p)
  \/ \E p \in posts : ServerFail(p)
  \/ \E p \in posts : SaveOk(p)
  \/ \E p \in posts : SaveFailed(p)

(* The task store in the first second of a session, before any debounced  *)
(* write can fire.                                                         *)
NextStore ==
  \/ LoadOk
  \/ LoadFail
  \/ \E id \in TaskIds \cup {MissingId}, st \in DropStatuses : UpdateTaskStatus(id, st)
  \/ \E id \in TaskIds \cup {MissingId} : QuickComplete(id)
  \/ \E id \in TaskIds : OpenTaskDetail(id)
  \/ \E e \in EditInputs : EditField(e[1], e[2])
  \/ \E form \in Forms : CreateTask(form)
  \/ Tick(StoreHorizonMs)

SpecStore == Init /\ [][NextStore]_vars

(* A document without tasks yet *)
EmptyDoc == [SeedDoc EXCEPT !.tasks = <<>>]

(* A session that has loaded EmptyDoc or SeedDoc and is idle *)
InitIds ==
  /\ pc = "running"
  /\ uncaught = FALSE
  /\ listeners = TRUE
  /\ rendered = TRUE
  /\ data \in {EmptyDoc, SeedDoc}
  /\ filteredTasks = AllRefs(data)
  /\ domTheme = data.settings.theme
  /\ sidebarTask = 0
  /\ saveTimeout = 0
  /\ timers = NoTimers
  /\ autoLeft = AUTOSAVE_MS
  /\ localStorage = NULL
  /\ remoteFile = data
  /\ posts = {}
  /\ lastPost = NULL
  /\ loaded = "remote"
  /\ sinceSave = NONE
  /\ now = 0
  /\ filterAssignee = "all"
  /\ filterProject = T_All
  /\ filterPriority = "all"
  /\ searchInput = EmptyText
  /\ searchLeft = NONE
  /\ defaultViewSelect = "kanban"
  /\ defaultCalViewSelect = "month"
  /\ lastSearch = NULL
  /\ lastConfirm = ""
  /\ lastMiss = ""
  /\ currentDate = Today
  /\ currentCalendarView = "month"
  /\ newTaskModal = FALSE
  /\ settingsModal = FALSE
  /\ shortcutsModal = FALSE
  /\ stats = UpdateStats(data, now)

(* Operations that name a task by id, add tasks or remove them *)
NextIds ==
  \/ \E st \in DropStatuses : UpdateTaskStatus(MissingId, st)
  \/ QuickComplete(MissingId)
  \/ \E id \in TaskIds : OpenTaskDetail(id)
  \/ \E form \in Forms : CreateTask(form)
  \/ \E title \in Titles : OpenQuickAdd(title)
  \/ \E id \in TaskIds \cup {MissingId} : DuplicateTask(id)
  \/ \E id \in TaskIds \cup {MissingId}, ok \in Answers : DeleteTask(id, ok)
  \/ \E id \in TaskIds \cup {MissingId}, ok \in Answers : QuickDelete(id, ok)
  \/ Tick(StoreHorizonMs)

SpecIds == InitIds /\ [][NextIds]_vars

Views == {"kanban", "list", "calendar"}
CalViews == {"month", "week", "day"}

(* Names typed into the settings dialog *)
NewProjects == {P_General}
NewAssignees == {"Eli"}

(* Deleting under filters and search *)
VisibleQueries == {EmptyText, <<"s","h","i">>}

NextVisible ==
  \/ \E v \in ProjectOptions : ChangeFilterProject(v)
  \/ \E q \in VisibleQueries : SearchInput(q)
  \/ SearchTimer
  \/ \E form \in ViewForms : CreateTask(form)
  \/ \E id \in TaskIds : OpenTaskDetail(id)
  \/ \E id \in TaskIds, ok \in Answers : DeleteTask(id, ok)
  \/ \E id \in TaskIds, ok \in Answers : QuickDelete(id, ok)
  \/ Tick(StoreHorizonMs)

SpecVisible == InitIds /\ [][NextVisible]_vars

(* The handlers that change the store, in the first second of a session *)
CacheEdits == {<<"status", "done">>}

NextCache ==
  \/ \E id \in TaskIds : UpdateTaskStatus(id, "doing")
  \/ \E id \in TaskIds : QuickComplete(id)
  \/ \E id \in TaskIds : OpenTaskDetail(id)
  \/ \E e \in CacheEdits : EditField(e[1], e[2])
  \/ \E form \in ViewForms : CreateTask(form)
  \/ \E id \in TaskIds : DuplicateTask(id)
  \/ \E id \in TaskIds : DeleteTask(id, TRUE)
  \/ \E id \in TaskIds : QuickDelete(id, TRUE)
  \/ \E name \in Range(data.projects) : RemoveProject(name)
  \/ \E name \in Range(data.assignees) : RemoveAssignee(name)
  \/ ToggleTheme
  \/ Tick(StoreHorizonMs)

SpecCache == InitIds /\ [][NextCache]_vars

(* The stats bar: loads and every operation on tasks *)
StatsForms == {[title |-> T_Ship, project |-> P_Launch, status |-> st, priority |-> "p2",
                assignee |-> "Dana", deadline |-> "2024-01-30", effort |-> "small",
                notes |-> EmptyText] : st \in {"todo", "done"}}

StatsEdits == {<<"status", "done">>, <<"progress", Str(50)>>}

NextStats ==
  \/ LoadOk
  \/ LoadFail
  \/ \E id \in TaskIds, st \in DropStatuses : UpdateTaskStatus(id, st)
  \/ \E id \in TaskIds : QuickComplete(id)
  \/ \E id \in TaskIds : OpenTaskDetail(id)
  \/ \E e \in StatsEdits : EditField(e[1], e[2])
  \/ \E form \in StatsForms : CreateTask(form)
  \/ \E title \in Titles : OpenQuickAdd(title)
  \/ \E id \in TaskIds : DuplicateTask(id)
  \/ \E id \in TaskIds : DeleteTask(id, TRUE)
  \/ \E id \in TaskIds : QuickDelete(id, TRUE)
  \/ Tick(StoreHorizonMs)

SpecStats == Init /\ [][NextStats]_vars

(* Overlays: the modals, the sidebar and the keyboard *)
Keys == {"n", "/", "Escape", "?"}
TagNames == {"BODY", "INPUT"}
ModalIds == {"newTaskModal", "settingsModal", "shortcutsModal"}

NextOverlays ==
  \/ OpenNewTaskModal
  \/ OpenSettingsModal
  \/ ShowShortcuts
  \/ \E id \in TaskIds : OpenTaskDetail(id)
  \/ \E modalId \in ModalIds : CloseModal(modalId)
  \/ CloseSidebar
  \/ \E key \in Keys, tagName \in TagNames : HandleKeyboard(key, tagName)
  \/ \E form \in Forms : CreateTask(form)
  \/ Tick(StoreHorizonMs)

SpecOverlays == InitIds /\ [][NextOverlays]_vars

(* The calendar *)
Directions == {0 - 1, 1}

NextCalendar ==
  \/ \E direction \in Directions : NavigateCalendar(direction)
  \/ \E view \in CalViews : SwitchCalendarView(view)
  \/ GoToToday

SpecCalendar == InitIds /\ [][NextCalendar]_vars

(* The settings dialog and the theme toggle *)

NextSettings ==
  \/ OpenSettingsModal
  \/ \E name \in NewProjects : AddProject(name)
  \/ \E name \in NewAssignees : AddAssignee(name)
  \/ \E name \in Range(data.projects) : RemoveProject(name)
  \/ \E name \in Range(data.assignees) : RemoveAssignee(name)
  \/ ToggleTheme
  \/ \E v \in Views : ChangeDefaultView(v)
  \/ \E v \in CalViews : ChangeDefaultCalView(v)
  \/ Tick(StoreHorizonMs)

SpecSettings == InitIds /\ [][NextSettings]_vars

(* The visible set: filters, search and the mutations that recompute it *)
NextView ==
  \/ LoadOk
  \/ \E v \in AssigneeOptions : ChangeFilterAssignee(v)
  \/ \E v \in ProjectOptions : ChangeFilterProject(v)
  \/ \E v \in PriorityOptions : ChangeFilterPriority(v)
  \/ \E q \in Queries : SearchInput(q)
  \/ SearchTimer
  \/ \E form \in ViewForms : CreateTask(form)
  \/ \E id \in TaskIds : OpenTaskDetail(id)
  \/ \E e \in ViewEdits : EditField(e[1], e[2])
  \/ Tick(ViewHorizonMs)

SpecView == Init /\ [][NextView]_vars

(* The persistence bridge around an autosave tick *)
NextSync ==
  \/ ToggleTheme
  \/ Tick(SyncHorizonMs)
  \/ \E h \in DOMAIN timers : DoSaveTimer(h)
  \/ AutoSave
  \/ NetStep

SpecSync == InitIdle /\ [][NextSync]_vars

(* Loading, saving and reloading in a fresh session *)
NextLoad ==
  \/ LoadOk
  \/ LoadFail
  \/ Reload
  \/ ToggleTheme
  \/ Tick(SyncHorizonMs)
  \/ \E h \in DOMAIN timers : DoSaveTimer(h)
  \/ NetStep

SpecLoad == Init /\ [][NextLoad]_vars

(* SpecSync with the scheduling the event loop and the network give: time  *)
(* passes, due callbacks run, every request is answered or fails.          *)
SpecSyncFair ==
  /\ InitIdle
  /\ [][NextSync]_vars
  /\ WF_vars(Tick(SyncHorizonMs))
  /\ WF_vars(\E h \in DOMAIN timers : DoSaveTimer(h))
  /\ WF_vars(AutoSave)
  /\ WF_vars(NetStep)

-----------------------------------------------------------------------------
(* Properties *)

ProgressIs100(t) == t.progress \in {Num(100), Str(100)}

(* Requests issued by the step *)
NewSent == {p \in posts' : p.stage = "sent"} \ posts

DebounceFires == \E h \in DOMAIN timers : DoSaveTimer(h)

(* C1: after any operation that sets a task's status to done (drop on the  *)
(* Done column, quickComplete, the detail editor's status field, creation  *)
(* with status done) that task's progress is 100.                          *)
C1_DoneSetsProgress ==
  [][(data # NULL /\ data' # NULL) =>
       \A i \in 1..Len(data'.tasks) :
         (/\ data'.tasks[i].status = "done"
          /\ (i > Len(data.tasks) \/ data.tasks[i].status # "done"))
         => ProgressIs100(data'.tasks[i])]_vars

(* C2: non-immediate saveData calls less than 1 s apart, with no immediate *)
(* save meanwhile, produce exactly one POST: none while the burst lasts,   *)
(* one when the timer fires 1 s after the last call, carrying the store as *)
(* it is then, and no timer is left to write again.                        *)
C2_DebounceCoalesces ==
  [][/\ DebounceFires =>
          /\ sinceSave = DEBOUNCE_MS
          /\ Cardinality(NewSent) = 1
          /\ \A p \in NewSent : p.body = Stringify(data)
          /\ PendingSaves' = {}
     /\ (sinceSave # NONE /\ ~DebounceFires /\ ~AutoSave) => NewSent = {}
     /\ (sinceSave' # NONE) =>
          \E h \in DOMAIN timers' :
             /\ PendingSaves' = {h}
             /\ timers'[h].left = DEBOUNCE_MS - sinceSave']_vars

C2_Witness ==
  /\ lastPost # NULL
  /\ autoLeft <= 3 * TickMs
  /\ now = DEBOUNCE_MS + TickMs
  /\ Parse(lastPost.body).settings.theme = "dark"
  /\ PendingSaves = {}

(* C3: saveData(true) issues its POST in the same step, with the current   *)
(* store, and cancels the pending debounced write: one write in all.       *)
C3_ImmediateBypasses ==
  [][AutoSave =>
       /\ Cardinality(NewSent) = 1
       /\ \A p \in NewSent : p.body = Stringify(data')
       /\ PendingSaves' = {}
       /\ sinceSave' = NONE]_vars

C3_Witness ==
  /\ now = TickMs
  /\ autoLeft = AUTOSAVE_MS
  /\ data.settings.theme = "light"
  /\ PendingSaves = {}
  /\ Cardinality(posts) = 1
  /\ lastPost.body = Stringify(data)

(* C4: a store mutation awaiting its write is eventually sent, also while  *)
(* further saves keep resetting the debounce timer, once the autosave tick *)
(* falls within the window modelled.                                       *)
C4_EventuallySent ==
  (sinceSave # NONE /\ autoLeft <= SyncHorizonMs - now)
    ~> (sinceSave = NONE /\ lastPost # NULL /\ lastPost.body = Stringify(data))

C4_Witness ==
  /\ now = 3 * TickMs
  /\ autoLeft = AUTOSAVE_MS
  /\ sinceSave = NONE
  /\ data.settings.theme = "light"
  /\ lastPost # NULL
  /\ lastPost.outcome = "inflight"
  /\ lastPost.body = Stringify(data)
  /\ remoteFile = SeedDoc
  /\ Cardinality(posts) = 1

(* C5: every saveData call leaves the offline cache holding the full store *)
(* as it is at the call, and a request the call issues carries that text.  *)
SaveCall == (ToggleTheme /\ data # NULL) \/ AutoSave

C5_CacheWrittenFirst ==
  [][SaveCall =>
       /\ localStorage' = Stringify(data')
       /\ \A p \in NewSent : p.body = localStorage']_vars

C5_Witness ==
  /\ autoLeft = AUTOSAVE_MS
  /\ localStorage = Stringify(data)
  /\ lastPost # NULL
  /\ lastPost.body = localStorage
  /\ data.settings.theme = "light"

(* C6: a failed remote write leaves the store in memory and the offline    *)
(* cache as they are, the cache holding the store's tasks, lists and       *)
(* settings; a load with the remote unreachable then adopts the cache.     *)
C6_FailedSaveKeepsCache ==
  [][/\ (\E p \in posts : SaveFailed(p)) =>
          /\ data' = data
          /\ localStorage' = localStorage
          /\ localStorage # NULL
          /\ Content(Parse(localStorage)) = Content(data)
     /\ (\E p \in posts : ServerFail(p)) =>
          /\ localStorage' = localStorage
          /\ localStorage # NULL
     /\ (LoadFail /\ localStorage # NULL) => data' = Parse(localStorage)]_vars

C6_Witness ==
  /\ loaded = "cache"
  /\ lastPost # NULL
  /\ lastPost.outcome = "failed"
  /\ Content(data) = Content(Parse(lastPost.body))
  /\ remoteFile = SeedDoc
  /\ data.settings.theme = "light"

(* C7: load adopts the remote document as store and visible set when the   *)
(* GET succeeds, and the offline cache, when present, when it fails.       *)
C7_LoadAdopts ==
  [][/\ LoadOk =>
          /\ data' = remoteFile
          /\ filteredTasks' = AllRefs(remoteFile)
          /\ pc' = "running"
     /\ (LoadFail /\ localStorage # NULL) =>
          /\ data' = Parse(localStorage)
          /\ filteredTasks' = AllRefs(Parse(localStorage))
          /\ pc' = "running"]_vars

C7_Witness ==
  /\ loaded = "cache"
  /\ pc = "running"
  /\ data = CachedDoc
  /\ remoteFile = SeedDoc
  /\ lastPost = NULL

(* C8: when the remote load fails and no offline cache exists, init runs   *)
(* to completion without an uncaught exception: listeners installed,      *)
(* first render done, autosave started.                                    *)
C8_LoadFailureHandled ==
  (pc # "loading" /\ loaded = "none") =>
     /\ ~uncaught
     /\ pc = "running"
     /\ listeners
     /\ rendered
     /\ autoLeft # NONE

(* C9: meta.lastSync of the store changes only when a remote write has     *)
(* succeeded, to the lastSync the server wrote and returned for it; a      *)
(* failed write leaves it unchanged.                                       *)
C9_LastSyncFromServer ==
  [][/\ \A p \in posts : SaveOk(p) => data'.meta.lastSync = p.lastSync
     /\ \A p \in posts : (ServerSave(p) /\ ~p.orphan) =>
          \E q \in posts' : /\ q.id = p.id
                            /\ q.stage = "ok"
                            /\ q.lastSync = remoteFile'.meta.lastSync
     /\ \A p \in posts : SaveFailed(p) => data' = data
     /\ (data # NULL /\ data' # NULL /\ data'.meta.lastSync # data.meta.lastSync)
          => \E p \in posts : p.stage = "ok" /\ SaveOk(p)]_vars

C9_Witness ==
  /\ data.meta.lastSync = TickMs
  /\ remoteFile.meta.lastSync = TickMs
  /\ posts = {}

(* C10: once every remote write in flight has completed, the remote        *)
(* document holds the store as it was when the latest of them was sent.    *)
C10_LastWriteWins ==
  (/\ lastPost # NULL
   /\ lastPost.outcome \in {"ok", "synced"}
   /\ \A p \in posts : p.stage # "sent")
  => Content(remoteFile) = Content(Parse(lastPost.body))

(* C11: when a save's remote write has succeeded and the page is loaded    *)
(* again with the remote available and no mutation in between, the store   *)
(* loaded is the document on the server, and that document equals the      *)
(* store that was saved: tasks, projects, assignees, settings and meta.    *)
C11_SaveLoadRoundTrip ==
  [][/\ LoadOk => data' = remoteFile
     /\ (/\ Reload
         /\ data # NULL
         /\ lastPost # NULL
         /\ lastPost.outcome = "synced"
         /\ lastPost.page = "this"
         /\ posts = {}
         /\ sinceSave = NONE
         /\ Content(data) = Content(Parse(lastPost.body)))
        => remoteFile = data]_vars

(* C12: after applyFilters has run (a filter select changed, a task was    *)
(* created) the visible set lists tasks of the store in store   *)
(* order, exactly those equal to every filter value that is not "all", and *)
(* the whole task list when all three filters are "all".                   *)
FiltersRan ==
  /\ data # NULL
  /\ data' # NULL
  /\ (filterVars' # filterVars \/ Len(data'.tasks) # Len(data.tasks))

C12_FiltersSelect ==
  [][FiltersRan =>
       LET n == Len(data'.tasks)
           ft == filteredTasks'
       IN /\ \A k \in 1..Len(ft) : ft[k] \in 1..n
          /\ \A k \in 1..(Len(ft) - 1) : ft[k] < ft[k + 1]
          /\ Range(ft) =
               {i \in 1..n :
                  /\ filterAssignee' # "all" => data'.tasks[i].assignee = filterAssignee'
                  /\ filterProject' # T_All => data'.tasks[i].project = filterProject'
                  /\ filterPriority' # "all" => data'.tasks[i].priority = filterPriority'}
          /\ (filterAssignee' = "all" /\ filterProject' = T_All /\ filterPriority' = "all")
               => ft = [i \in 1..n |-> i]]_vars

C12_Witness ==
  /\ data # NULL
  /\ Len(data.tasks) = 2
  /\ filterAssignee = "Dana"
  /\ filterProject = P_General
  /\ filterPriority = "p2"
  /\ filteredTasks = <<2>>
  /\ data.tasks[1].project = P_Launch

(* C13: search run again with the same non-empty query, the store not      *)
(* changed in between, assigns the same visible set; search with an empty  *)
(* query assigns what applyFilters gives under the selected filter values; *)
(* search leaves the store alone.                                          *)
C13_SearchRepeatable ==
  [][(SearchTimer /\ data # NULL) =>
       /\ (/\ searchInput # EmptyText
           /\ lastSearch # NULL
           /\ lastSearch.query = searchInput
           /\ lastSearch.store = data)
          => filteredTasks' = lastSearch.result
       /\ searchInput = EmptyText
          => filteredTasks' = Filtered(data, filterAssignee, filterProject, filterPriority)
       /\ data' = data]_vars

(* The query "Fi" has run twice on a store of two tasks and shows the one  *)
(* it matches; before that the empty query ran under a project filter.     *)
C13_Witness ==
  /\ data # NULL
  /\ Len(data.tasks) = 2
  /\ lastSearch # NULL
  /\ lastSearch.query = <<"F", "i">>
  /\ lastSearch.store = data
  /\ lastSearch.again
  /\ searchInput = <<"F", "i">>
  /\ searchLeft = NONE
  /\ now = ViewHorizonMs
  /\ filteredTasks = <<1>>
  /\ filterProject = P_General

(* C14: after each completed event that changes the filters, the query or  *)
(* the store, the visible set is the current query applied to the current  *)
(* store when the query is non-empty, and otherwise the current filter     *)
(* selection applied to the current store.  A query typed but not yet      *)
(* searched (its timeout pending) is not counted as current.               *)
Matching(d, query) ==
  SelectSeq(AllRefs(d), LAMBDA i : Found(d.tasks[i], ToLowerCase(query)))

ViewEvent ==
  /\ data # NULL
  /\ data' # NULL
  /\ searchLeft' = NONE
  /\ \/ filterVars' # filterVars
     \/ Content(data') # Content(data)
     \/ SearchTimer

C14_VisibleSetCurrent ==
  [][ViewEvent =>
       filteredTasks' =
         IF searchInput' # EmptyText
         THEN Matching(data', searchInput')
         ELSE Filtered(data', filterAssignee', filterProject', filterPriority')]_vars

(* C15: updateTaskStatus, quickComplete, duplicateTask, deleteTask and     *)
(* quickDelete called with an id that names no task leave the store as it  *)
(* is (tasks, projects, assignees, settings) and raise no error.           *)
MissingIdCall ==
  \/ \E st \in DropStatuses : UpdateTaskStatus(MissingId, st)
  \/ QuickComplete(MissingId)
  \/ DuplicateTask(MissingId)
  \/ DeleteTask(MissingId, TRUE)
  \/ QuickDelete(MissingId, TRUE)

C15_MissingIdNoOp ==
  [][MissingIdCall =>
       /\ data' = data
       /\ uncaught' = uncaught
       /\ pc' = pc]_vars

C15_Witness ==
  /\ lastMiss = "quickDelete"
  /\ lastConfirm = "ok"
  /\ data # NULL
  /\ Len(data.tasks) = 2
  /\ ~uncaught
  /\ pc = "running"

(* C16: deleteTask and quickDelete remove a task only after the user has   *)
(* confirmed; when the confirmation is declined the store, the visible     *)
(* set, the offline cache and the pending-save timer are unchanged.        *)
DeleteDeclined ==
  \E id \in TaskIds \cup {MissingId} : DeleteTask(id, FALSE) \/ QuickDelete(id, FALSE)

C16_DeleteNeedsConfirm ==
  [][/\ DeleteDeclined =>
          /\ data' = data
          /\ filteredTasks' = filteredTasks
          /\ localStorage' = localStorage
          /\ saveTimeout' = saveTimeout
          /\ timers' = timers
     /\ (data # NULL /\ data' # NULL /\ Len(data'.tasks) < Len(data.tasks))
          => lastConfirm' = "ok"]_vars

C16_Witness ==
  /\ lastConfirm = "cancel"
  /\ data # NULL
  /\ Len(data.tasks) = 2
  /\ PendingSaves # {}
  /\ localStorage = Stringify(data)

(* C17: duplicateTask(id) for an existing id appends exactly one task at   *)
(* the end, equal to the original in every field but id and title, its     *)
(* title the original's followed by " (Copy)", its id fresh; the tasks     *)
(* already there, the original among them, are unchanged.                  *)
C17_DuplicateAppendsCopy ==
  [][\A id \in TaskIds :
       DuplicateTask(id) =>
         LET n == Len(data.tasks)
             o == data.tasks[FindTask(data, id)]
             c == data'.tasks[n + 1]
         IN /\ Len(data'.tasks) = n + 1
            /\ SubSeq(data'.tasks, 1, n) = data.tasks
            /\ c.title = o.title \o T_CopySuffix
            /\ \A f \in (DOMAIN o) \ {"id", "title"} : c[f] = o[f]
            /\ \A j \in 1..n : data.tasks[j].id # c.id]_vars

(* C18: no two tasks of the store have the same id, whatever createTask,   *)
(* quick-add and duplicateTask calls were made, several within the same    *)
(* clock millisecond included.                                             *)
C18_UniqueIds ==
  data # NULL =>
    \A i, j \in 1..Len(data.tasks) : i # j => data.tasks[i].id # data.tasks[j].id

(* C19: every task whose status is done has progress 100.                  *)
C19_DoneHasFullProgress ==
  data # NULL =>
    \A i \in 1..Len(data.tasks) :
      data.tasks[i].status = "done" => ProgressIs100(data.tasks[i])

(* C20: every settings mutation (adding or removing a project or an        *)
(* assignee, changing the theme, the default view or the default calendar  *)
(* view) updates the store and calls saveData in the same event.           *)
SaveTriggered ==
  /\ localStorage' = Stringify(data')
  /\ sinceSave' = 0
  /\ PendingSaves' # {}

C20_SettingsSaved ==
  [][/\ \A name \in NewProjects :
          AddProject(name) => (data'.projects = Append(data.projects, name) /\ SaveTriggered)
     /\ \A name \in NewAssignees :
          AddAssignee(name) => (data'.assignees = Append(data.assignees, name) /\ SaveTriggered)
     /\ \A name \in Range(data.projects) :
          RemoveProject(name) => (name \notin Range(data'.projects) /\ SaveTriggered)
     /\ \A name \in Range(data.assignees) :
          RemoveAssignee(name) => (name \notin Range(data'.assignees) /\ SaveTriggered)
     /\ ToggleTheme =>
          (data'.settings.theme = OtherTheme(data.settings.theme) /\ SaveTriggered)
     /\ \A v \in Views :
          ChangeDefaultView(v) => (data'.settings.defaultView = v /\ SaveTriggered)
     /\ \A v \in CalViews :
          ChangeDefaultCalView(v) => (data'.settings.defaultCalendarView = v /\ SaveTriggered)]_vars

(* C21: the projects list and the assignees list never hold the same       *)
(* string twice, whatever is added or removed in the settings dialog, and  *)
(* a removal keeps the remaining entries in their order.                   *)
NoRepeats(seq) == \A i, j \in 1..Len(seq) : seq[i] = seq[j] => i = j

C21_ListsAreSets ==
  [][/\ data' # NULL => (NoRepeats(data'.projects) /\ NoRepeats(data'.assignees))
     /\ \A name \in Range(data.projects) :
          RemoveProject(name) =>
            data'.projects = SelectSeq(data.projects, LAMBDA x : x # name)
     /\ \A name \in Range(data.assignees) :
          RemoveAssignee(name) =>
            data'.assignees = SelectSeq(data.assignees, LAMBDA x : x # name)]_vars

(* C22: in month view navigateCalendar(+1) puts the reference date in the  *)
(* next calendar month and navigateCalendar(-1) in the previous one, for   *)
(* every reference date, days 29, 30 and 31 included.                      *)
MonthIndex(date) == date.year * 12 + date.month

C22_MonthNavigation ==
  [][\A direction \in Directions :
       (currentCalendarView = "month" /\ NavigateCalendar(direction))
         => MonthIndex(currentDate') = MonthIndex(currentDate) + direction]_vars

(* C23: Escape pressed with the focus outside an input or textarea hides   *)
(* every overlay: the new-task modal, the settings modal, the shortcuts    *)
(* modal and the task detail sidebar.                                      *)
C23_EscapeClosesAll ==
  [][HandleKeyboard("Escape", "BODY")
       => (/\ ~newTaskModal'
           /\ ~settingsModal'
           /\ ~shortcutsModal'
           /\ sidebarTask' = 0)]_vars

(* C24: after every load that adopts a store, and after every operation    *)
(* that adds, removes or modifies a task, the displayed active, overdue    *)
(* and done-today counts and the average progress are those of the store.  *)
StatsEvent ==
  /\ data' # NULL
  /\ \/ pc = "loading" /\ pc' # "loading"
     \/ data # NULL /\ data'.tasks # data.tasks

C24_StatsCurrent ==
  [][StatsEvent => stats' = UpdateStats(data', now')]_vars

(* C25: an edit that reached the offline cache but whose remote write      *)
(* failed survives a reload: the store the next load adopts holds it,      *)
(* whether the remote answers or not.                                      *)
UnsyncedEdit ==
  /\ lastPost # NULL
  /\ lastPost.outcome = "failed"
  /\ lastPost.page = "earlier"
  /\ localStorage = lastPost.body
  /\ posts = {}

C25_UnsyncedEditSurvives ==
  [][(UnsyncedEdit /\ (LoadOk \/ LoadFail))
       => (data' # NULL /\ Content(data') = Content(Parse(lastPost.body)))]_vars

(* C26: the store's meta.lastSync never moves backwards: every response    *)
(* to a remote write, in whatever order the responses arrive, sets it to   *)
(* a timestamp not earlier than the one it held.                           *)
C26_LastSyncMonotonic ==
  [][(\E p \in posts : SaveOk(p))
       => data'.meta.lastSync >= data.meta.lastSync]_vars

(* C27: once saveData has been called in a session, between handlers the   *)
(* offline cache holds the tasks, projects, assignees and settings of the  *)
(* store in memory.                                                        *)
SaveIssued == saveTimeout # 0 \/ (lastPost # NULL /\ lastPost.page = "this")

C27_CacheMirrorsStore ==
  (Ready /\ SaveIssued) =>
    (localStorage # NULL /\ Content(Parse(localStorage)) = Content(data))

C27_Witness ==
  /\ Ready
  /\ SaveIssued
  /\ Len(data.tasks) = 2
  /\ data.projects = <<P_General>>
  /\ data.settings.theme = "light"
  /\ Content(data) # Content(remoteFile)
  /\ localStorage # NULL
  /\ Content(Parse(localStorage)) = Content(data)

(* C28: a drop changes a task only when the target column differs from the *)
(* task's status: a card dropped on its own column keeps its status,       *)
(* progress and updatedAt, and no save is triggered.                       *)
C28_SameColumnDropIsNoOp ==
  [][\A id \in TaskIds, st \in DropStatuses :
       (/\ UpdateTaskStatus(id, st)
        /\ data.tasks[FindTask(data, id)].status = st)
         => (/\ data'.tasks = data.tasks
             /\ UNCHANGED saveVars)]_vars

(* C29: at most one debounced remote write is pending at any time: every   *)
(* saveData call cancels the timer scheduled before it, whether it then    *)
(* schedules a new one or writes at once.                                  *)
C29_OnePendingWrite ==
  [][/\ Cardinality(PendingSaves') <= 1
     /\ SaveCall => /\ \A h \in PendingSaves : h \notin PendingSaves'
                    /\ PendingSaves' \subseteq {saveTimeout'}]_vars

C29_Witness ==
  /\ Cardinality(PendingSaves) = 1
  /\ saveTimeout = 2
  /\ saveTimeout \in PendingSaves
  /\ timers[saveTimeout].left = DEBOUNCE_MS
  /\ now = TickMs
  /\ lastPost = NULL

(* C30: between handlers every task of the visible set is a task of the    *)
(* store, and after a confirmed deleteTask or quickDelete the deleted task *)
(* is not in the visible set, whatever the filters and the search query.   *)
Visible(refs) == {refs[k] : k \in 1..Len(refs)}

C30_VisibleInStore ==
  [][/\ data' # NULL => Visible(filteredTasks') \subseteq 1..Len(data'.tasks)
     /\ \A id \in TaskIds :
          (DeleteTask(id, TRUE) \/ QuickDelete(id, TRUE))
            => \A i \in Visible(filteredTasks') : data'.tasks[i].id # id]_vars

C30_Witness ==
  /\ lastConfirm = "ok"
  /\ filterProject = P_General
  /\ lastSearch # NULL
  /\ lastSearch.query # EmptyText
  /\ Len(data.tasks) = 1
  /\ filteredTasks = <<1>>

====
